---- MODULE Spec2Model ----
(***************************************************************************)
(* Model of the recursive-descent parser (src/lexing_parsing/parser.ipp)   *)
(* and of the AST nodes' description getters and loadValueInRegister       *)
(* (ast/nodes header).  The parser is modelled as pure operators over a    *)
(* parser state p = [pos, cur, status, errpos, ub]; the source text is the *)
(* lexeme sequence src.  Raw text is a sequence of characters.             *)
(***************************************************************************)
EXTENDS Integers, Sequences, FiniteSets, TLC

VARIABLES src, entry, mode, phase, res,
          typeDescription, variableDescription, generated, outcome

vars == <<src, entry, mode, phase, res,
          typeDescription, variableDescription, generated, outcome>>

parserVars == <<src, entry, mode, phase, res>>
nodeVars == <<typeDescription, variableDescription, generated, outcome>>

\* ------------------------------------------------------------------ bounds
\* how many lexemes an input may go on after leaving the scenario sources
MaxFeed == 2

\* ------------------------------------------------------------------ lexemes
Lx(type, value) == [type |-> type, value |-> value]

NoValue == <<>>

PureTypes == {"TT_K_INT", "TT_K_VOID"}

\* enum TrailingSeparator
TRAILING_FORBIDDEN == "TRAILING_FORBIDDEN"
TRAILING_OPTIONAL == "TRAILING_OPTIONAL"
TRAILING_REQUIRED == "TRAILING_REQUIRED"
TrailingSeparator == {TRAILING_FORBIDDEN, TRAILING_OPTIONAL, TRAILING_REQUIRED}

\* ------------------------------------------------------------------ lexer
\* The token the lexer hands out once `pos` lexemes have been read: the next
\* lexeme with its position, and the end-of-input token at and after the end.
LexerNextToken(pos) ==
  IF pos < Len(src)
    THEN [type |-> src[pos + 1].type, value |-> src[pos + 1].value, position |-> pos + 1]
    ELSE [type |-> "TT_END", value |-> <<>>, position |-> Len(src) + 1]

\* The raw text up to (not including) the next double quote.
LexerGetRawUntil(pos) ==
  IF pos < Len(src) /\ src[pos + 1].type = "RAW"
    THEN [raw |-> src[pos + 1].value, pos |-> pos + 1]
    ELSE [raw |-> <<>>, pos |-> pos]

\* ------------------------------------------------------------------ errors
Ok(p) == p.status = "ok"

\* USER_THROW(msg, position): a user-facing error carrying a position
USER_THROW(p, position) ==
  IF Ok(p) THEN [p EXCEPT !.status = "user_error", !.errpos = position] ELSE p

\* USER_ASSERT(cond, msg, position)
USER_ASSERT(p, cond, position) == IF Ok(p) /\ ~cond THEN USER_THROW(p, position) ELSE p

Ret(p, v) == [p |-> p, v |-> IF Ok(p) THEN v ELSE NoValue]

\* r is computed once and handed to the rest of the function
Then(r, rest(_)) == rest(r)

\* ------------------------------------------------------------------ parser
nextToken(p) ==
  IF Ok(p) THEN [p EXCEPT !.cur = LexerNextToken(p.pos), !.pos = p.pos + 1] ELSE p

getRawUntil(p) ==
  Then(LexerGetRawUntil(p.pos), LAMBDA r :
    Ret(nextToken([p EXCEPT !.pos = r.pos]), r.raw))

\* match reporting the position of the token after the unexpected one
match_NextPosition(p, type) ==
  Ret(nextToken(USER_ASSERT(p, p.cur.type = type, p.cur.position + 1)), p.cur.value)

match(p, type) ==
  Ret(nextToken(USER_ASSERT(p, p.cur.type = type, p.cur.position)), p.cur.value)

\* the list combinator: elements parsed by the rule `elem` until the breaker is
\* the current token
RECURSIVE ParseElement(_, _)
RECURSIVE SeparatedListLoop(_, _, _, _, _, _, _)
SeparatedListLoop(elem, ttSeparator, trailingMode, ttBreaker, p, elementList, fuel) ==
  IF ~Ok(p) \/ ~(ttBreaker = "TT_NONE" \/ p.cur.type # ttBreaker)
    THEN Ret(p, elementList)
  ELSE IF fuel = 0 THEN Ret([p EXCEPT !.status = "diverged"], elementList)
  ELSE
    Then(ParseElement(elem, p), LAMBDA e :
      IF ~Ok(e.p) THEN Ret(e.p, elementList)
      ELSE IF ttSeparator # "TT_NONE" /\ e.p.cur.type # ttSeparator
                /\ trailingMode # TRAILING_REQUIRED
        THEN Ret(e.p, Append(elementList, e.v))                          \* break
      ELSE
        Then(IF ttSeparator = "TT_NONE" THEN e.p
             ELSE IF e.p.cur.type = ttSeparator THEN match(e.p, ttSeparator).p
             ELSE USER_THROW(e.p, e.p.cur.position),
             LAMBDA p1 :
          SeparatedListLoop(elem, ttSeparator, trailingMode, ttBreaker,
            IF ttBreaker # "TT_NONE" /\ trailingMode = TRAILING_FORBIDDEN
              THEN USER_ASSERT(p1, p1.cur.type # ttBreaker, p1.cur.position)
              ELSE p1,
            Append(elementList, e.v), fuel - 1)))

\* every loop of the parser gets as many iterations as there are tokens to read
Fuel == Len(src) + 2

\* parseSeparatedList that stops silently where TRAILING_REQUIRED must throw
parseSeparatedList_RequiredAsOptional(elem, ttSeparator, trailingMode, ttBreaker, p) ==
  SeparatedListLoop(elem, ttSeparator,
                    IF trailingMode = TRAILING_REQUIRED THEN TRAILING_OPTIONAL ELSE trailingMode,
                    ttBreaker, p, <<>>, Fuel)

parseSeparatedList(elem, ttSeparator, trailingMode, ttBreaker, p) ==
  SeparatedListLoop(elem, ttSeparator, trailingMode, ttBreaker, p, <<>>, Fuel)

parsePureType(p) ==
  IF p.cur.type \in PureTypes THEN match(p, p.cur.type) ELSE match(p, "TT_IDENT")

RECURSIVE PointerLoop(_, _, _)
PointerLoop(p, pointerDepth, fuel) ==
  IF ~Ok(p) \/ p.cur.type # "TT_STAR" THEN Ret(p, pointerDepth)
  ELSE IF fuel = 0 THEN Ret([p EXCEPT !.status = "diverged"], pointerDepth)
  ELSE PointerLoop(match(p, "TT_STAR").p, pointerDepth + 1, fuel - 1)

\* parseType counting the type name as one level of pointer
parseType_DepthFromOne(p) ==
  Then(parsePureType(p), LAMBDA pureType :
  Then(PointerLoop(pureType.p, 1, Fuel), LAMBDA stars :
    Ret(stars.p, [name |-> pureType.v, pointerDepth |-> stars.v])))

\* Type::fullName: name + std::string(pointerDepth, '*')
fullName(type) == type.name \o [i \in 1..type.pointerDepth |-> "*"]

parseType(p) ==
  Then(parsePureType(p), LAMBDA pureType :
  Then(PointerLoop(pureType.p, 0, Fuel), LAMBDA stars :
    Ret(stars.p, [name |-> pureType.v, pointerDepth |-> stars.v])))

parseSingleParam(p) ==
  Then(parseType(p), LAMBDA type :
  Then(IF Ok(type.p) /\ type.p.cur.type = "TT_IDENT"
         THEN match(type.p, "TT_IDENT") ELSE Ret(type.p, <<>>), LAMBDA name :
    Ret(name.p, [type |-> type.v, name |-> name.v])))

\* parseFunctionParams allowing a trailing comma
parseFunctionParams_TrailingOptional(p) ==
  Then(parseSeparatedList("parseSingleParam", "TT_COMMA", TRAILING_OPTIONAL, "TT_RPAR",
                          match(p, "TT_LPAR").p), LAMBDA functionParams :
    Ret(match(functionParams.p, "TT_RPAR").p, functionParams.v))

parseFunctionParams(p) ==
  Then(parseSeparatedList("parseSingleParam", "TT_COMMA", TRAILING_FORBIDDEN, "TT_RPAR",
                          match(p, "TT_LPAR").p), LAMBDA functionParams :
    Ret(match(functionParams.p, "TT_RPAR").p, functionParams.v))

\* "a" "b" won't work: a single double quoted value, no escape replaced
parseRawSingleStringLiteral(p) ==
  Then(getRawUntil(USER_ASSERT(p, p.cur.type = "TT_DOUBLE_QUOTE", p.cur.position)),
       LAMBDA raw :
    Ret(match(raw.p, "TT_DOUBLE_QUOTE").p, raw.v))

\* scopes::strToReg: the canonical name -> register table; an unknown name is
\* a user error
RegisterNames == { <<"e", "a", "x">>, <<"r", "a", "x">> }

strToReg(p, name) ==
  IF ~Ok(p) THEN Ret(p, NoValue)
  ELSE IF name \in RegisterNames THEN Ret(p, name)
  ELSE Ret([p EXCEPT !.status = "user_error", !.errpos = 0], NoValue)

\* raw[0] of an empty string_view reads past the view: the build decides what
\* happens (p.ub): the byte read differs from '=', or the process dies
FirstCharIsEqual(q, raw) ==
  IF ~Ok(q) THEN q
  ELSE IF raw = <<>>
    THEN IF q.ub = "crash" THEN [q EXCEPT !.status = "crash"]
         ELSE USER_THROW(q, q.cur.position)
  ELSE USER_ASSERT(q, raw[1] = "=", q.cur.position)

parseRegisterName(p) ==
  Then(parseRawSingleStringLiteral(p), LAMBDA raw :
  Then(FirstCharIsEqual(raw.p, raw.v), LAMBDA q :
    IF Ok(q) THEN strToReg(q, Tail(raw.v)) ELSE Ret(q, NoValue)))

\* lexer::Lexer::replaceEscapes
Escaped(c) == IF c = "t" THEN "TAB" ELSE IF c = "n" THEN "LF" ELSE c

RECURSIVE replaceEscapes(_)
replaceEscapes(lit) ==
  IF lit = <<>> THEN <<>>
  ELSE IF lit[1] = "\\" /\ Len(lit) >= 2
    THEN <<Escaped(lit[2])>> \o replaceEscapes(SubSeq(lit, 3, Len(lit)))
  ELSE <<lit[1]>> \o replaceEscapes(Tail(lit))

RECURSIVE StringLiteralLoop(_, _, _)
StringLiteralLoop(p, literals, fuel) ==
  IF ~Ok(p) \/ p.cur.type # "TT_DOUBLE_QUOTE" THEN Ret(p, literals)
  ELSE IF fuel = 0 THEN Ret([p EXCEPT !.status = "diverged"], literals)
  ELSE Then(parseRawSingleStringLiteral(p), LAMBDA singleLiteral :
         StringLiteralLoop(singleLiteral.p, Append(literals, singleLiteral.v), fuel - 1))

RECURSIVE ConcatEscaped(_)
ConcatEscaped(literals) ==
  IF literals = <<>> THEN <<>>
  ELSE replaceEscapes(Head(literals)) \o ConcatEscaped(Tail(literals))

\* parseStringLiteral keeping the first literal only
parseStringLiteral_FirstOnly(p) ==
  Then(StringLiteralLoop(p, <<>>, Fuel), LAMBDA lits :
    Ret(USER_ASSERT(lits.p, lits.v # <<>>, lits.p.cur.position),
        [content |-> IF lits.v = <<>> THEN <<>> ELSE replaceEscapes(Head(lits.v))]))

\* "a" "\tb" is a valid string literal with concat
parseStringLiteral(p) ==
  Then(StringLiteralLoop(p, <<>>, Fuel), LAMBDA lits :
    Ret(USER_ASSERT(lits.p, lits.v # <<>>, lits.p.cur.position),
        [content |-> ConcatEscaped(lits.v)]))

\* utils::readNumber
DigitValue(c) ==
  CASE c = "0" -> 0 [] c = "1" -> 1 [] c = "2" -> 2 [] c = "3" -> 3 [] c = "4" -> 4
    [] c = "5" -> 5 [] c = "6" -> 6 [] c = "7" -> 7 [] c = "8" -> 8 [] OTHER -> 9

RECURSIVE readNumber(_)
readNumber(numberView) ==
  IF numberView = <<>> THEN 0
  ELSE 10 * readNumber(SubSeq(numberView, 1, Len(numberView) - 1))
       + DigitValue(numberView[Len(numberView)])

parseNumberLiteral(p) ==
  Then(match(p, "TT_NUMBER"), LAMBDA numberView :
    Ret(numberView.p, [node |-> "NumberLiteral", number |-> readNumber(numberView.v)]))

parseExpression(p) ==
  IF Ok(p) /\ p.cur.type = "TT_IDENT"
    THEN Then(match(p, "TT_IDENT"), LAMBDA ident :
           Ret(ident.p, [node |-> "Variable", name |-> ident.v]))
    ELSE parseNumberLiteral(p)

parseReturnStatement(p) ==
  Then(parseExpression(match(p, "TT_K_RETURN").p), LAMBDA expression :
    Ret(expression.p, [node |-> "ReturnStatement", expression |-> expression.v]))

\* parseBindingRequest reading an '=' token before the literal
parseBindingRequest_LeadingEqual(p) ==
  Then(parseRegisterName(match(p, "TT_EQUAL").p), LAMBDA registerTo :
  Then(match(match(registerTo.p, "TT_LPAR").p, "TT_IDENT"), LAMBDA ident :
    Ret(match(ident.p, "TT_RPAR").p,
        [registerTo |-> registerTo.v, varIdentifier |-> ident.v])))

parseBindingRequest(p) ==
  Then(parseRegisterName(p), LAMBDA registerTo :
  Then(match(match(registerTo.p, "TT_LPAR").p, "TT_IDENT"), LAMBDA ident :
    Ret(match(ident.p, "TT_RPAR").p,
        [registerTo |-> registerTo.v, varIdentifier |-> ident.v])))

parseInlineAsmStatement(p) ==
  Then(parseStringLiteral(match(match(p, "TT_K_ASM").p, "TT_LPAR").p), LAMBDA asmBlock :
  Then(IF Ok(asmBlock.p) /\ asmBlock.p.cur.type = "TT_COLON"
         THEN parseSeparatedList("parseBindingRequest", "TT_COMMA", TRAILING_OPTIONAL,
                                 "TT_RPAR", match(asmBlock.p, "TT_COLON").p)
         ELSE Ret(asmBlock.p, <<>>), LAMBDA requests :
    Ret(match(requests.p, "TT_RPAR").p,
        [node |-> "InlineAsmStatement", asmBlock |-> asmBlock.v, requests |-> requests.v])))

parseDeclaration(p) ==
  Then(parseType(p), LAMBDA type :
  Then(match(type.p, "TT_IDENT"), LAMBDA name :
    IF Ok(name.p) /\ name.p.cur.type = "TT_EQUAL"
      THEN Then(parseExpression(match(name.p, "TT_EQUAL").p), LAMBDA expression :
             Ret(expression.p,
                 [node |-> "Declaration", type |-> type.v,
                  variable |-> [name |-> name.v], assignment |-> <<expression.v>>]))
      ELSE Ret(name.p, [node |-> "Declaration", type |-> type.v,
                        variable |-> [name |-> name.v], assignment |-> <<>>])))

\* parseSingleInstruction taking an identifier as the start of a declaration
parseSingleInstruction_IdentDeclares(p) ==
  IF ~Ok(p) THEN Ret(p, NoValue)
  ELSE IF p.cur.type = "TT_K_RETURN" THEN parseReturnStatement(p)
  ELSE IF p.cur.type = "TT_K_ASM" THEN parseInlineAsmStatement(p)
  ELSE IF p.cur.type \in PureTypes \cup {"TT_IDENT"} THEN parseDeclaration(p)
  ELSE Ret(USER_THROW(p, p.cur.position), NoValue)

parseSingleInstruction(p) ==
  IF ~Ok(p) THEN Ret(p, NoValue)
  ELSE IF p.cur.type = "TT_K_RETURN" THEN parseReturnStatement(p)
  ELSE IF p.cur.type = "TT_K_ASM" THEN parseInlineAsmStatement(p)
  ELSE IF p.cur.type \in PureTypes THEN parseDeclaration(p)
  ELSE Ret(USER_THROW(p, p.cur.position), NoValue)

RECURSIVE FunctionCallLoop(_, _, _)
FunctionCallLoop(p, arguments, fuel) ==
  IF ~Ok(p) \/ p.cur.type = "TT_RPAR" THEN Ret(p, arguments)
  ELSE IF fuel = 0 THEN Ret([p EXCEPT !.status = "diverged"], arguments)
  ELSE Then(parseExpression(p), LAMBDA argument :
         FunctionCallLoop(match(argument.p, "TT_COMMA").p,
                          Append(arguments, argument.v), fuel - 1))

parseFunctionCall(p) ==
  Then(match(p, "TT_IDENT"), LAMBDA name :
  Then(FunctionCallLoop(match(name.p, "TT_LPAR").p, <<>>, Fuel), LAMBDA arguments :
    Ret(match(arguments.p, "TT_RPAR").p, [name |-> name.v, arguments |-> arguments.v])))

parseCodeBlock(p) ==
  Then(parseSeparatedList("parseSingleInstruction", "TT_SEMI", TRAILING_REQUIRED,
                          "TT_RCURL", match(p, "TT_LCURL").p), LAMBDA instructions :
    Ret(match(instructions.p, "TT_RCURL").p, instructions.v))

parseFunction(p) ==
  Then(parseType(p), LAMBDA returnType :
  Then(match(returnType.p, "TT_IDENT"), LAMBDA name :
  Then(parseFunctionParams(name.p), LAMBDA parametersNode :
  Then(parseCodeBlock(parametersNode.p), LAMBDA body :
    Ret(body.p, [returnType |-> returnType.v, name |-> name.v,
                 params |-> parametersNode.v, body |-> body.v])))))

\* the std::function handed to parseSeparatedList
ParseElement(elem, p) ==
  CASE elem = "parseSingleParam" -> parseSingleParam(p)
    [] elem = "parseBindingRequest" -> parseBindingRequest(p)
    [] elem = "parseSingleInstruction" -> parseSingleInstruction(p)
    [] OTHER -> parseExpression(p)

\* the member of a class after its type and name: a method or an attribute
Public == [level |-> "Public"]

RECURSIVE ClassLoop(_, _, _, _)
ClassLoop(p, attributes, methods, fuel) ==
  IF ~Ok(p) \/ p.cur.type = "TT_RCURL"
    THEN Ret(p, [attributes |-> attributes, methods |-> methods])
  ELSE IF fuel = 0
    THEN Ret([p EXCEPT !.status = "diverged"], NoValue)
  ELSE
    Then(Public, LAMBDA attribute_specifier :
    Then(parseType(p), LAMBDA type :
    Then(match(type.p, "TT_IDENT"), LAMBDA name :
      IF ~Ok(name.p) THEN Ret(name.p, NoValue)
      ELSE IF name.p.cur.type = "TT_LPAR"
        THEN Then(parseFunctionParams(name.p), LAMBDA parametersNode :
             Then(parseCodeBlock(parametersNode.p), LAMBDA body :
               ClassLoop(body.p, attributes,
                         Append(methods,
                                <<[returnType |-> type.v, name |-> name.v,
                                   params |-> parametersNode.v, body |-> body.v],
                                  attribute_specifier>>),
                         fuel - 1)))
        ELSE ClassLoop(match(name.p, "TT_SEMI").p,
                       Append(attributes,
                              <<[type |-> type.v, name |-> name.v], attribute_specifier>>),
                       methods, fuel - 1))))

\* parseClass naming the class after its last attribute
parseClass_MemberName(p) ==
  Then(match(match(p, "TT_K_CLASS").p, "TT_IDENT"), LAMBDA name :
  Then(ClassLoop(match(name.p, "TT_LCURL").p, <<>>, <<>>, Fuel), LAMBDA members :
    Ret(match(match(members.p, "TT_RCURL").p, "TT_SEMI").p,
        [name |-> IF members.v.attributes # <<>>
                    THEN members.v.attributes[Len(members.v.attributes)][1].name
                    ELSE name.v,
         attributes |-> members.v.attributes,
         methods |-> members.v.methods])))

parseClass(p) ==
  Then(match(match(p, "TT_K_CLASS").p, "TT_IDENT"), LAMBDA name :
  Then(ClassLoop(match(name.p, "TT_LCURL").p, <<>>, <<>>, Fuel), LAMBDA members :
    Ret(match(match(members.p, "TT_RCURL").p, "TT_SEMI").p,
        [name |-> name.v, attributes |-> members.v.attributes,
         methods |-> members.v.methods])))

RECURSIVE TranslationUnitLoop(_, _, _, _)
TranslationUnitLoop(p, funcList, classList, fuel) ==
  IF ~Ok(p) \/ p.cur.type = "TT_END"
    THEN Ret(p, [functions |-> funcList, classes |-> classList])
  ELSE IF fuel = 0
    THEN Ret([p EXCEPT !.status = "diverged"], NoValue)
  ELSE IF p.cur.type = "TT_K_CLASS"
    THEN Then(parseClass(p), LAMBDA class :
           TranslationUnitLoop(class.p, funcList, Append(classList, class.v), fuel - 1))
    ELSE Then(parseFunction(p), LAMBDA function :
           TranslationUnitLoop(function.p, Append(funcList, function.v), classList, fuel - 1))

\* parseTranslationUnit without its closing match(TT_END)
parseTranslationUnit_NoMatchEnd(p) ==
  TranslationUnitLoop(nextToken(p), <<>>, <<>>, Fuel)

parseTranslationUnit(p) ==
  Then(TranslationUnitLoop(nextToken(p), <<>>, <<>>, Fuel), LAMBDA lists :
    Ret(match(lists.p, "TT_END").p, lists.v))

\* ------------------------------------------------------------------ sources
LPAR == Lx("TT_LPAR", <<"(">>)
RPAR == Lx("TT_RPAR", <<")">>)
LCURL == Lx("TT_LCURL", <<"{">>)
RCURL == Lx("TT_RCURL", <<"}">>)
SEMI == Lx("TT_SEMI", <<";">>)
COMMA == Lx("TT_COMMA", <<",">>)
COLON == Lx("TT_COLON", <<":">>)
EQUAL == Lx("TT_EQUAL", <<"=">>)
STAR == Lx("TT_STAR", <<"*">>)
DQ == Lx("TT_DOUBLE_QUOTE", <<"\"">>)
K_INT == Lx("TT_K_INT", <<"int">>)
K_VOID == Lx("TT_K_VOID", <<"void">>)
K_CLASS == Lx("TT_K_CLASS", <<"class">>)
K_RETURN == Lx("TT_K_RETURN", <<"return">>)
K_ASM == Lx("TT_K_ASM", <<"asm">>)
IdX == Lx("TT_IDENT", <<"x">>)
IdF == Lx("TT_IDENT", <<"f">>)
Num1 == Lx("TT_NUMBER", <<"1">>)
Num25 == Lx("TT_NUMBER", <<"2", "5">>)
RawNop == Lx("RAW", <<"n", "o", "p">>)
RawEax == Lx("RAW", <<"=", "e", "a", "x">>)
RawBare == Lx("RAW", <<"e", "a", "x">>)
RawZz == Lx("RAW", <<"=", "z", "z">>)
RawTab == Lx("RAW", <<"\\", "t", "b">>)

Tokens == {LPAR, RPAR, LCURL, RCURL, SEMI, COMMA, COLON, EQUAL, STAR, DQ, K_INT, K_VOID,
           K_CLASS, K_RETURN, K_ASM, IdX, IdF, Num1, Num25}
Raws == {RawNop, RawEax, RawBare, RawZz, RawTab}

\* the sources the inputs are drawn around, per parser operation
Scenarios(e) ==
  CASE e = "parseTranslationUnit" ->
         { <<K_INT, IdF, LPAR, RPAR, LCURL, K_RETURN, Num1, SEMI, RCURL>>,
           <<K_INT, IdF, LPAR, RPAR, LCURL, K_INT, IdX, EQUAL, Num25, SEMI,
             K_RETURN, IdX, SEMI, RCURL>>,
           <<K_INT, IdF, LPAR, RPAR, LCURL, K_ASM, LPAR, DQ, RawNop, DQ, COLON,
             EQUAL, DQ, RawEax, DQ, LPAR, IdX, RPAR, RPAR, SEMI, RCURL>>,
           <<K_INT, IdF, LPAR, RPAR, LCURL, K_ASM, LPAR, DQ, RawNop, DQ, COLON,
             DQ, RawEax, DQ, LPAR, IdX, RPAR, RPAR, SEMI, RCURL>>,
           <<K_CLASS, IdF, LCURL, K_INT, IdX, SEMI, K_VOID, IdF, LPAR, RPAR,
             LCURL, RCURL, RCURL, SEMI>>,
           <<K_INT, IdF, LPAR, K_INT, IdX, COMMA, RPAR>>,
           <<K_CLASS, IdX, LCURL, K_INT, STAR, IdF, SEMI, RCURL, SEMI,
             K_CLASS, IdF, LCURL, RCURL, SEMI>> }
    [] e = "parseFunctionParams" ->
         { <<LPAR, K_INT, IdX, COMMA, RPAR>>,
           <<LPAR, K_INT, IdX, COMMA, IdF, STAR, RPAR>> }
    [] e = "parseInlineAsmStatement" ->
         { <<K_ASM, LPAR, DQ, RawNop, DQ, COLON, EQUAL, DQ, RawEax, DQ, LPAR, IdX, RPAR, RPAR>>,
           <<K_ASM, LPAR, DQ, RawNop, DQ, COLON, DQ, RawEax, DQ, LPAR, IdX, RPAR, RPAR>> }
    [] e = "parseBindingRequest" ->
         { <<DQ, RawEax, DQ, LPAR, IdX, RPAR>>, <<DQ, DQ, LPAR, IdX, RPAR>> }
    [] e = "parseSingleInstruction" ->
         { <<K_INT, STAR, IdX, EQUAL, Num1>>, <<K_RETURN, IdX>> }
    [] e = "parseFunctionCall" ->
         { <<IdF, LPAR, IdX, COMMA, Num1, COMMA, RPAR>>, <<IdF, LPAR, IdX, COMMA, Num1, RPAR>> }
    [] e = "parseSeparatedList" ->
         { <<IdX, COMMA, Num1, COMMA, IdF, COMMA, RPAR>>, <<IdX, COMMA, Num1, COMMA, IdF, RPAR>> }
    [] e = "parseType" ->
         { <<K_INT, STAR, STAR, IdX>>, <<IdF, STAR, IdX>> }
    [] e = "parseStringLiteral" ->
         { <<DQ, RawNop, DQ, DQ, RawTab, DQ, RPAR>>, <<DQ, DQ, DQ, RawTab, DQ, DQ, RawNop, DQ>> }
    [] OTHER -> {}

Entries == {"parseTranslationUnit", "parseFunctionParams", "parseInlineAsmStatement",
            "parseBindingRequest", "parseSingleInstruction", "parseFunctionCall",
            "parseSeparatedList", "parseType", "parseStringLiteral"}

RECURSIVE CommonPrefixLen(_, _)
CommonPrefixLen(s, t) ==
  IF s = <<>> \/ t = <<>> \/ Head(s) # Head(t) THEN 0
  ELSE 1 + CommonPrefixLen(Tail(s), Tail(t))

\* s follows one of the sources and then goes on for at most MaxFeed lexemes
Allowed(e, s) ==
  \E sc \in Scenarios(e) : Len(s) - CommonPrefixLen(s, sc) <= MaxFeed

\* what the lexer can deliver after s: after an opening quote only raw text or the
\* closing quote, after raw text only the closing quote
QuoteCount(s) == Cardinality({i \in 1..Len(s) : s[i].type = "TT_DOUBLE_QUOTE"})

CanFollow(s, t) ==
  IF s # <<>> /\ s[Len(s)].type = "RAW" THEN t = DQ
  ELSE IF s # <<>> /\ s[Len(s)].type = "TT_DOUBLE_QUOTE" /\ QuoteCount(s) % 2 = 1
    THEN t \in Raws \cup {DQ}
  ELSE t \in Tokens

\* ------------------------------------------------------------------ grammar
\* The grammar of the parser's contract as a deterministic recogniser over lexeme
\* kinds.  g = "written": the productions as written (binding := '=' stringLiteral
\* '(' IDENT ')', declaration := primitiveKeyword IDENT ('=' expr)?).
\* g = "parsed": binding := '"' raw '"' '(' IDENT ')' and
\* declaration := primitiveKeyword '*'* IDENT ('=' expr)?.
\* A state is [q, ctx, lit, bad, off]: ctx the enclosing construct, lit the kind of
\* literal being read, bad whether a binding literal read so far is not "=REGNAME",
\* off the position of the first lexeme no grammatical sequence continues with.
GStart == [q |-> "TU", ctx |-> "top", lit |-> "none", bad |-> FALSE, off |-> 0]

TypeStart(k) == k \in PureTypes \cup {"TT_IDENT"}
Expr(k) == k \in {"TT_IDENT", "TT_NUMBER"}
BindingText(v) == v # <<>> /\ v[1] = "=" /\ Tail(v) \in RegisterNames

GNext(g, st, k, v) ==
  LET q == st.q
      to(n) == [st EXCEPT !.q = n]
      dead == [st EXCEPT !.q = "DEAD"]
  IN
  CASE q = "TU" -> IF k = "TT_K_CLASS" THEN to("C1")
                   ELSE IF TypeStart(k) THEN [st EXCEPT !.q = "FT", !.ctx = "top"]
                   ELSE IF k = "TT_END" THEN to("ACCEPT") ELSE dead
    [] q = "C1" -> IF k = "TT_IDENT" THEN to("C2") ELSE dead
    [] q = "C2" -> IF k = "TT_LCURL" THEN to("CM") ELSE dead
    [] q = "CM" -> IF k = "TT_RCURL" THEN to("C3")
                   ELSE IF TypeStart(k) THEN [st EXCEPT !.q = "FT", !.ctx = "class"]
                   ELSE dead
    [] q = "C3" -> IF k = "TT_SEMI" THEN to("TU") ELSE dead
    [] q = "FT" -> IF k = "TT_STAR" THEN st ELSE IF k = "TT_IDENT" THEN to("FN") ELSE dead
    [] q = "FN" -> IF k = "TT_LPAR" THEN to("P0")
                   ELSE IF k = "TT_SEMI" /\ st.ctx = "class" THEN to("CM") ELSE dead
    [] q = "P0" -> IF k = "TT_RPAR" THEN to("B0") ELSE IF TypeStart(k) THEN to("PT") ELSE dead
    [] q = "PT" -> IF k = "TT_STAR" THEN st
                   ELSE IF k = "TT_IDENT" THEN to("PN")
                   ELSE IF k = "TT_COMMA" THEN to("PC")
                   ELSE IF k = "TT_RPAR" THEN to("B0") ELSE dead
    [] q = "PN" -> IF k = "TT_COMMA" THEN to("PC") ELSE IF k = "TT_RPAR" THEN to("B0") ELSE dead
    [] q = "PC" -> IF TypeStart(k) THEN to("PT") ELSE dead
    [] q = "B0" -> IF k = "TT_LCURL" THEN to("S0") ELSE dead
    [] q = "S0" -> IF k = "TT_RCURL" THEN to(IF st.ctx = "class" THEN "CM" ELSE "TU")
                   ELSE IF k = "TT_K_RETURN" THEN to("R1")
                   ELSE IF k = "TT_K_ASM" THEN to("A1")
                   ELSE IF k \in PureTypes THEN to("D1") ELSE dead
    [] q = "R1" -> IF Expr(k) THEN to("SE") ELSE dead
    [] q = "SE" -> IF k = "TT_SEMI" THEN to("S0") ELSE dead
    [] q = "D1" -> IF k = "TT_STAR" /\ g = "parsed" THEN st
                   ELSE IF k = "TT_IDENT" THEN to("D2") ELSE dead
    [] q = "D2" -> IF k = "TT_EQUAL" THEN to("D3") ELSE IF k = "TT_SEMI" THEN to("S0") ELSE dead
    [] q = "D3" -> IF Expr(k) THEN to("SE") ELSE dead
    [] q = "A1" -> IF k = "TT_LPAR" THEN to("A2") ELSE dead
    [] q = "A2" -> IF k = "TT_DOUBLE_QUOTE" THEN [st EXCEPT !.q = "L1", !.lit = "body"] ELSE dead
    [] q = "L1" -> IF k = "RAW"
                     THEN [st EXCEPT !.q = "L2",
                                     !.bad = st.bad \/ (st.lit = "binding" /\ ~BindingText(v))]
                   ELSE IF k = "TT_DOUBLE_QUOTE"
                     THEN [st EXCEPT !.q = "L3", !.bad = st.bad \/ st.lit = "binding"]
                   ELSE dead
    [] q = "L2" -> IF k = "TT_DOUBLE_QUOTE" THEN to("L3") ELSE dead
    [] q = "L3" -> IF st.lit = "body"
                     THEN IF k = "TT_DOUBLE_QUOTE" THEN to("L1")
                          ELSE IF k = "TT_COLON" THEN to("BL")
                          ELSE IF k = "TT_RPAR" THEN to("SE") ELSE dead
                   ELSE IF k = "TT_DOUBLE_QUOTE" /\ g = "written" THEN to("L1")
                   ELSE IF k = "TT_LPAR" THEN to("I1") ELSE dead
    [] q = "BL" -> IF k = "TT_RPAR" THEN to("SE")
                   ELSE IF k = "TT_EQUAL" /\ g = "written" THEN to("BQ")
                   ELSE IF k = "TT_DOUBLE_QUOTE" /\ g = "parsed"
                     THEN [st EXCEPT !.q = "L1", !.lit = "binding"]
                   ELSE dead
    [] q = "BQ" -> IF k = "TT_DOUBLE_QUOTE" THEN [st EXCEPT !.q = "L1", !.lit = "binding"]
                   ELSE dead
    [] q = "I1" -> IF k = "TT_IDENT" THEN to("I2") ELSE dead
    [] q = "I2" -> IF k = "TT_RPAR" THEN to("I3") ELSE dead
    [] q = "I3" -> IF k = "TT_COMMA" THEN to("BL") ELSE IF k = "TT_RPAR" THEN to("SE") ELSE dead
    [] OTHER -> dead

RECURSIVE GRun(_, _, _, _)
GRun(g, st, s, i) ==
  IF st.q = "DEAD" \/ i > Len(s) THEN st
  ELSE LET n == GNext(g, st, s[i].type, s[i].value)
       IN  GRun(g, IF n.q = "DEAD" THEN [n EXCEPT !.off = i] ELSE n, s, i + 1)

GEnd == Lx("TT_END", <<>>)

\* s is a prefix of a grammatical sequence
Viable(g, s) == GRun(g, GStart, s, 1).q # "DEAD"
\* s followed by end-of-input is grammatical
Matches(g, s) == GRun(g, GStart, Append(s, GEnd), 1).q = "ACCEPT"
\* the position in s (or of end-of-input) of the first offending token
FirstOffending(g, s) == GRun(g, GStart, Append(s, GEnd), 1).off
\* a binding literal read before the first offending token is not "=REGNAME"
BadBindingText(g, s) == GRun(g, GStart, Append(s, GEnd), 1).bad

\* ------------------------------------------------------------------ parser runs
UBOutcomes == {"mismatch", "crash"}

\* Parser(Lexer &&lexer): nothing read yet
NewParser(ub) ==
  [pos |-> 0, cur |-> [type |-> "TT_NONE", value |-> <<>>, position |-> 0],
   status |-> "ok", errpos |-> 0, ub |-> ub]

\* a private operation starts with its first token current
First(ub) == nextToken(NewParser(ub))

Outcome(r) ==
  [status |-> r.p.status, errpos |-> r.p.errpos, pos |-> r.p.pos, cur |-> r.p.cur, v |-> r.v]

NoOutcome == Outcome(Ret(NewParser("mismatch"), NoValue))

\* ------------------------------------------------------------------ AST nodes
\* The Type nodes and the Variable nodes of a tree, by name; typeDescription and
\* variableDescription hold each node's `description` member, generated the
\* instructions the generator has been asked to emit, outcome how the last call on
\* a node ended.
nullptr == "nullptr"
TypeNodes == {"int", "void"}
VariableNodes == {"x", "f"}
TargetRegisters == {"REG_EAX", "REG_RAX"}
Numbers == {"1", "25"}
\* how many instructions the generator takes
MaxEmitted == 2

\* THROW(msg): an internal error, not the user's
THROW(msg) == [status |-> "internal_error", value |-> msg]
Returned(value) == [status |-> "ok", value |-> value]

\* the record a scope holds for a name
DescriptionOf(name) == "description of " \o name

\* Type::decorate / Variable::decorate: store the resolved description
decorate(name) == DescriptionOf(name)

\* a getter handing out the slot whatever it holds
getTypeDescription_Unchecked(description) == Returned(description)

getTypeDescription(description) ==
  IF description # nullptr THEN Returned(description)
  ELSE THROW("TypeDescription not set")

getVariableDescription(description) ==
  IF description # nullptr THEN Returned(description)
  ELSE THROW("VariableDescription not set")

\* NasmGenerator_x86_64::emitLoadNumberLitteral
emitLoadNumberLitteral(generator, targetRegister, number) ==
  Append(generator, [instr |-> "mov", to |-> targetRegister, from |-> number])

\* loadValueInRegister: how the call ends and what the generator then holds
Loaded(result, generator) ==
  [status |-> result.status, value |-> result.value, generator |-> generator]

NumberLiteral_loadValueInRegister(number, generator, targetRegister) ==
  Loaded(Returned("void"), emitLoadNumberLitteral(generator, targetRegister, number))

Variable_loadValueInRegister(name, generator, targetRegister) ==
  Loaded(THROW("variable loadValueInRegister Not implemented"), generator)

Expression_loadValueInRegister(expr, generator, targetRegister) ==
  IF expr.node = "NumberLiteral"
    THEN NumberLiteral_loadValueInRegister(expr.number, generator, targetRegister)
    ELSE Variable_loadValueInRegister(expr.name, generator, targetRegister)

Expressions ==
  [node : {"NumberLiteral"}, number : Numbers] \cup [node : {"Variable"}, name : VariableNodes]

NoCall == [op |-> "none", node |-> "none", target |-> "none", status |-> "none", value |-> "none"]

NodeInit ==
  /\ typeDescription = [t \in TypeNodes |-> nullptr]
  /\ variableDescription = [v \in VariableNodes |-> nullptr]
  /\ generated = <<>>
  /\ outcome = NoCall

Init ==
  /\ src = <<>>
  /\ entry \in Entries
  /\ mode \in TrailingSeparator
  /\ entry # "parseSeparatedList" => mode = TRAILING_FORBIDDEN
  /\ phase = "input"
  /\ res = NoOutcome
  /\ NodeInit

Call(e, r) ==
  /\ entry = e
  /\ phase = "input"
  /\ res' = Outcome(r)
  /\ phase' = "parsed"
  /\ UNCHANGED <<src, entry, mode, nodeVars>>

ParseTranslationUnit ==
  \E ub \in UBOutcomes : Call("parseTranslationUnit", parseTranslationUnit(NewParser(ub)))

ParseFunctionParams ==
  \E ub \in UBOutcomes : Call("parseFunctionParams", parseFunctionParams(First(ub)))

ParseInlineAsmStatement ==
  \E ub \in UBOutcomes : Call("parseInlineAsmStatement", parseInlineAsmStatement(First(ub)))

ParseBindingRequest ==
  \E ub \in UBOutcomes : Call("parseBindingRequest", parseBindingRequest(First(ub)))

ParseSingleInstruction ==
  \E ub \in UBOutcomes : Call("parseSingleInstruction", parseSingleInstruction(First(ub)))

ParseFunctionCall ==
  \E ub \in UBOutcomes : Call("parseFunctionCall", parseFunctionCall(First(ub)))

ParseSeparatedList ==
  \E ub \in UBOutcomes :
    Call("parseSeparatedList",
         parseSeparatedList("parseExpression", "TT_COMMA", mode, "TT_RPAR", First(ub)))

ParseType ==
  \E ub \in UBOutcomes : Call("parseType", parseType(First(ub)))

ParseStringLiteral ==
  \E ub \in UBOutcomes : Call("parseStringLiteral", parseStringLiteral(First(ub)))

\* the parser stopped looking at end-of-input: more source changes what it does
AtEnd == res.cur.position = Len(src) + 1

\* src is the beginning of one of the sources
OnScenario ==
  \E sc \in Scenarios(entry) : Len(src) < Len(sc) /\ SubSeq(sc, 1, Len(src)) = src

\* the source grows by one lexeme and is parsed afresh
Feed ==
  /\ phase = "parsed"
  /\ AtEnd \/ OnScenario \/ (entry = "parseTranslationUnit" /\ Viable("written", src))
  /\ \E t \in Tokens \cup Raws :
       /\ CanFollow(src, t)
       /\ Allowed(entry, Append(src, t))
       /\ src' = Append(src, t)
  /\ phase' = "input"
  /\ res' = NoOutcome
  /\ UNCHANGED <<entry, mode, nodeVars>>

Next ==
  \/ ParseTranslationUnit
  \/ ParseFunctionParams
  \/ ParseInlineAsmStatement
  \/ ParseBindingRequest
  \/ ParseSingleInstruction
  \/ ParseFunctionCall
  \/ ParseSeparatedList
  \/ ParseType
  \/ ParseStringLiteral
  \/ Feed

Spec == Init /\ [][Next]_vars

\* ------------------------------------------------------------------ node runs
InitNodes ==
  /\ src = <<>>
  /\ entry = "parseTranslationUnit"
  /\ mode = TRAILING_FORBIDDEN
  /\ phase = "input"
  /\ res = NoOutcome
  /\ NodeInit

Called(op, node, target, result) ==
  [op |-> op, node |-> node, target |-> target,
   status |-> result.status, value |-> result.value]

\* decoration fills a node's slot once
TypeDecorate ==
  \E t \in TypeNodes :
    /\ typeDescription[t] = nullptr
    /\ typeDescription' = [typeDescription EXCEPT ![t] = decorate(t)]
    /\ outcome' = Called("Type::decorate", t, "none", Returned("void"))
    /\ UNCHANGED <<variableDescription, generated, parserVars>>

VariableDecorate ==
  \E v \in VariableNodes :
    /\ variableDescription[v] = nullptr
    /\ variableDescription' = [variableDescription EXCEPT ![v] = decorate(v)]
    /\ outcome' = Called("Variable::decorate", v, "none", Returned("void"))
    /\ UNCHANGED <<typeDescription, generated, parserVars>>

GetTypeDescription ==
  \E t \in TypeNodes :
    /\ outcome' = Called("Type::getTypeDescription", t, "none",
                         getTypeDescription(typeDescription[t]))
    /\ UNCHANGED <<typeDescription, variableDescription, generated, parserVars>>

GetVariableDescription ==
  \E v \in VariableNodes :
    /\ outcome' = Called("Variable::getVariableDescription", v, "none",
                         getVariableDescription(variableDescription[v]))
    /\ UNCHANGED <<typeDescription, variableDescription, generated, parserVars>>

Load(op, node, targetRegister, result) ==
  /\ Len(generated) < MaxEmitted
  /\ generated' = result.generator
  /\ outcome' = Called(op, node, targetRegister, result)
  /\ UNCHANGED <<typeDescription, variableDescription, parserVars>>

NumberLiteralLoadValueInRegister ==
  \E n \in Numbers, r \in TargetRegisters :
    Load("NumberLiteral::loadValueInRegister", n, r,
         NumberLiteral_loadValueInRegister(n, generated, r))

VariableLoadValueInRegister ==
  \E v \in VariableNodes, r \in TargetRegisters :
    Load("Variable::loadValueInRegister", v, r,
         Variable_loadValueInRegister(v, generated, r))

ExpressionLoadValueInRegister ==
  \E e \in Expressions, r \in TargetRegisters :
    Load("Expression::loadValueInRegister",
         IF e.node = "NumberLiteral" THEN e.number ELSE e.name, r,
         Expression_loadValueInRegister(e, generated, r))

NextNodes ==
  \/ TypeDecorate
  \/ VariableDecorate
  \/ GetTypeDescription
  \/ GetVariableDescription
  \/ NumberLiteralLoadValueInRegister
  \/ VariableLoadValueInRegister
  \/ ExpressionLoadValueInRegister

SpecNodes == InitNodes /\ [][NextNodes]_vars

\* ------------------------------------------------------------------ properties
Parsed(e) == entry = e /\ phase = "parsed"

\* tokens the parser has moved past (every call of nextToken leaves one behind)
Consumed == res.pos - 1

ReturnsTranslationUnit ==
  /\ res.status = "ok"
  /\ DOMAIN res.v = {"functions", "classes"}
  /\ Consumed = Len(src) + 1

\* C1 as stated: every token sequence matching the grammar as written is parsed
\* into a TranslationUnit with every token through end-of-input consumed.
C1_AsWritten ==
  (Parsed("parseTranslationUnit") /\ Matches("written", src)) => ReturnsTranslationUnit

\* C1 amended: every token sequence matching the grammar with
\* binding := '"' "=REGNAME" '"' '(' IDENT ')' (one literal, no '=' token before it,
\* REGNAME a register) and declaration := primitiveKeyword '*'* IDENT ('=' expr)?
\* is parsed into a TranslationUnit with every token through end-of-input consumed.
C1_Parsed ==
  (Parsed("parseTranslationUnit") /\ Matches("parsed", src)
     /\ ~BadBindingText("parsed", src))
  => ReturnsTranslationUnit

C1_Witness ==
  /\ Parsed("parseTranslationUnit")
  /\ Matches("parsed", src)
  /\ ~BadBindingText("parsed", src)
  /\ \E i \in 1..Len(src) : src[i] = RawEax
  /\ res.status = "ok"
  /\ Len(res.v.functions) = 1
  /\ Len(res.v.functions[1].body[1].requests) = 1

IsElement(l) == l.type \in {"TT_IDENT", "TT_NUMBER"}
ExpressionOf(l) ==
  IF l.type = "TT_IDENT" THEN [node |-> "Variable", name |-> l.value]
  ELSE [node |-> "NumberLiteral", number |-> IF l = Num1 THEN 1 ELSE 25]

\* s from `from` on is  e1 , e2 , ... en , )
WithTrailing(s, from, n) ==
  /\ Len(s) = from + 2 * n
  /\ \A i \in 1..n : IsElement(s[from + 2 * i - 2]) /\ s[from + 2 * i - 1] = COMMA
  /\ s[Len(s)] = RPAR
\* s from `from` on is  e1 , e2 , ... en )   with n >= 1
NoTrailing(s, from, n) ==
  /\ n >= 1
  /\ Len(s) = from + 2 * n - 1
  /\ \A i \in 1..n : IsElement(s[from + 2 * i - 2])
  /\ \A i \in 1..(n - 1) : s[from + 2 * i - 1] = COMMA
  /\ s[Len(s)] = RPAR
ElementsOf(s, from, n) == [i \in 1..n |-> ExpressionOf(s[from + 2 * i - 2])]

\* the list is returned with the breaker left as the current token
ListAccepted(n) ==
  /\ res.status = "ok"
  /\ res.v = ElementsOf(src, 1, n)
  /\ res.cur = [type |-> "TT_RPAR", value |-> <<")">>, position |-> Len(src)]
  /\ Consumed = Len(src) - 1

\* C3: parseSeparatedList (separator ',', breaker ')'): with N >= 1 elements
\* TRAILING_REQUIRED accepts exactly e1 , ... eN , ) and raises an error without the
\* final separator; TRAILING_FORBIDDEN raises an error on ... eN , ) and accepts
\* ... eN ); TRAILING_OPTIONAL accepts both; a lone breaker gives the empty list;
\* an accepted list is the N elements in order with the breaker still current.
C3_SeparatedList ==
  Parsed("parseSeparatedList") =>
    /\ \A n \in 1..Len(src) :
         /\ WithTrailing(src, 1, n) =>
              IF mode = TRAILING_FORBIDDEN THEN res.status = "user_error" ELSE ListAccepted(n)
         /\ NoTrailing(src, 1, n) =>
              IF mode = TRAILING_REQUIRED THEN res.status = "user_error" ELSE ListAccepted(n)
    /\ src = <<RPAR>> => ListAccepted(0)
    /\ (mode = TRAILING_REQUIRED /\ res.status = "ok" /\ src # <<>> /\ res.cur.position = Len(src))
         => \E n \in 0..Len(src) : WithTrailing(src, 1, n)

C3_Witness ==
  /\ Parsed("parseSeparatedList")
  /\ mode = TRAILING_REQUIRED
  /\ src = <<IdX, COMMA, Num1, COMMA, IdF, COMMA, RPAR>>
  /\ Len(res.v) = 3

\* the lexemes after '(' are parameters separated by commas, the last one followed
\* by a comma and then ')'
ParamsThenTrailingComma ==
  /\ Len(src) >= 3
  /\ src[1] = LPAR
  /\ src[Len(src)] = RPAR
  /\ GRun("parsed", [GStart EXCEPT !.q = "P0"], SubSeq(src, 2, Len(src) - 1), 1).q = "PC"

\* C4 as stated: a parameter list with a trailing comma fails with a syntax error
\* positioned at the trailing comma.
C4_AtComma ==
  (Parsed("parseFunctionParams") /\ ParamsThenTrailingComma)
  => (res.status = "user_error" /\ res.errpos = Len(src) - 1)

\* C4 amended: a parameter list with a trailing comma fails with a syntax error
\* positioned at the closing parenthesis that follows the comma (the comma has been
\* consumed, the parenthesis is the current token).
C4_AtParenthesis ==
  (Parsed("parseFunctionParams") /\ ParamsThenTrailingComma)
  => (/\ res.status = "user_error"
      /\ res.errpos = Len(src)
      /\ res.cur.position = Len(src)
      /\ res.v = NoValue)

C4_Witness ==
  /\ Parsed("parseFunctionParams")
  /\ src = <<LPAR, K_INT, IdX, COMMA, RPAR>>
  /\ res.status = "user_error"

\* the source starts with a binding clause "=REGNAME"(identifier)
BindingClause ==
  /\ Len(src) >= 6
  /\ src[1] = DQ /\ src[2].type = "RAW" /\ BindingText(src[2].value) /\ src[3] = DQ
  /\ src[4] = LPAR /\ src[5].type = "TT_IDENT" /\ src[6] = RPAR

\* C5: parseBindingRequest accepts exactly "=REGNAME"(identifier) with REGNAME a
\* register and returns that register and identifier; every other literal content
\* (the empty literal included) is rejected with a user-facing error and no
\* BindingRequest.
C5_BindingRequest ==
  Parsed("parseBindingRequest") =>
    /\ res.status = "ok" <=> BindingClause
    /\ res.status = "ok" =>
         res.v = [registerTo |-> Tail(src[2].value), varIdentifier |-> src[5].value]
    /\ res.status # "ok" => (res.status = "user_error" /\ res.v = NoValue)

AsmNopThen(rest) == <<K_ASM, LPAR, DQ, RawNop, DQ, COLON>> \o rest
NopBoundToEax ==
  [node |-> "InlineAsmStatement", asmBlock |-> [content |-> <<"n", "o", "p">>],
   requests |-> <<[registerTo |-> <<"e", "a", "x">>, varIdentifier |-> <<"x">>]>>]

\* C6 as stated: asm("nop" : ="=eax"(x)), a binding being '=' stringLiteral
\* '(' IDENT ')', is accepted with body nop and the one binding {eax, x}.
C6_LeadingEqual ==
  (Parsed("parseInlineAsmStatement")
     /\ src = AsmNopThen(<<EQUAL, DQ, RawEax, DQ, LPAR, IdX, RPAR, RPAR>>))
  => (res.status = "ok" /\ res.v = NopBoundToEax)

\* C6 amended: a binding is one string literal "=REGNAME" followed by '(' IDENT ')'
\* with no '=' token before the literal: asm("nop" : "=eax"(x)) is accepted with
\* body nop and the one binding {eax, x}; an '=' token where the binding starts is
\* a user-facing error at that token.
C6_LiteralOnly ==
  Parsed("parseInlineAsmStatement") =>
    /\ src = AsmNopThen(<<DQ, RawEax, DQ, LPAR, IdX, RPAR, RPAR>>)
         => (res.status = "ok" /\ res.v = NopBoundToEax /\ Consumed = Len(src))
    /\ (Len(src) >= 7 /\ SubSeq(src, 1, 7) = AsmNopThen(<<EQUAL>>))
         => (res.status = "user_error" /\ res.errpos = 7)

C6_Witness ==
  /\ Parsed("parseInlineAsmStatement")
  /\ src = AsmNopThen(<<DQ, RawEax, DQ, LPAR, IdX, RPAR, RPAR>>)
  /\ res.status = "ok"

LeadingType == IF src = <<>> THEN "TT_END" ELSE src[1].type

\* C7: parseSingleInstruction parses a Declaration exactly when the leading token
\* is a primitive-type keyword; a leading identifier, or any leading token other
\* than return, asm or a primitive-type keyword, is a user-facing error positioned
\* at that token, which is not consumed.
C7_Declaration ==
  Parsed("parseSingleInstruction") =>
    /\ (res.status = "ok" /\ res.v.node = "Declaration") => LeadingType \in PureTypes
    /\ (res.status = "ok" /\ LeadingType \in PureTypes) => res.v.node = "Declaration"
    /\ LeadingType \in PureTypes => ~(res.status = "user_error" /\ res.errpos = 1)
    /\ LeadingType \notin PureTypes \cup {"TT_K_RETURN", "TT_K_ASM"}
         => (/\ res.status = "user_error"
             /\ res.errpos = 1
             /\ res.cur.position = 1
             /\ Consumed = 0)

C7_Witness ==
  /\ Parsed("parseSingleInstruction")
  /\ src = <<IdX>>
  /\ res.status = "user_error"
  /\ res.errpos = 1

\* C10: parseFunctionCall accepts name ( e1 , ... , eN ) for N >= 0 with commas
\* only between the arguments, returning the N arguments in order, and rejects a
\* call whose last argument is followed by a comma directly before ')'.
C10_NoTrailingComma ==
  (Parsed("parseFunctionCall") /\ Len(src) >= 3 /\ src[1].type = "TT_IDENT" /\ src[2] = LPAR)
  => /\ \A n \in 1..Len(src) :
          /\ NoTrailing(src, 3, n) =>
               (res.status = "ok"
                  /\ res.v = [name |-> src[1].value, arguments |-> ElementsOf(src, 3, n)])
          /\ WithTrailing(src, 3, n) => res.status = "user_error"
     /\ src = <<src[1], LPAR, RPAR>> => (res.status = "ok" /\ res.v.arguments = <<>>)

LoadsOfVariables == {"Variable::loadValueInRegister", "Expression::loadValueInRegister"}

\* C8: loadValueInRegister called on a decorated Variable, directly or as the
\* Variable alternative of an Expression, returns normally having emitted a load
\* into the target register.
C8_VariableLoads ==
  (/\ outcome.op \in LoadsOfVariables
   /\ outcome.node \in VariableNodes
   /\ variableDescription[outcome.node] # nullptr)
  => (/\ outcome.status = "ok"
      /\ generated # <<>>
      /\ generated[Len(generated)].to = outcome.target)

GetterOf(op) == op \in {"Type::getTypeDescription", "Variable::getVariableDescription"}
SlotOf(call) ==
  IF call.op = "Type::getTypeDescription" THEN typeDescription[call.node]
  ELSE variableDescription[call.node]

\* what a getter has just answered agrees with the slot it read
C9_Answer ==
  GetterOf(outcome.op) =>
    /\ SlotOf(outcome) # nullptr => (outcome.status = "ok" /\ outcome.value = SlotOf(outcome))
    /\ SlotOf(outcome) = nullptr => outcome.status = "internal_error"
    /\ outcome.status # "user_error"
    /\ outcome.status = "ok" => outcome.value # nullptr

\* a getter leaves every slot as it was
C9_SlotKept ==
  GetterOf(outcome'.op) =>
    (typeDescription' = typeDescription /\ variableDescription' = variableDescription)

\* C9: getTypeDescription / getVariableDescription returns the stored description
\* exactly when decoration has set the node's slot; on an unset slot it raises an
\* internal error, not a user-facing one, and never returns null; the getter never
\* changes the slot.
C9_Getters == [](C9_Answer) /\ [][C9_SlotKept]_vars

C9_Witness ==
  /\ outcome.op = "Type::getTypeDescription"
  /\ outcome.node = "int"
  /\ outcome.status = "internal_error"
  /\ typeDescription["int"] = nullptr
  /\ typeDescription["void"] # nullptr

\* the number of '*' lexemes that follow the first lexeme of s without a gap
StarRun(s) ==
  CHOOSE k \in 0..Len(s) :
    /\ \A i \in 2..(k + 1) : i <= Len(s) /\ s[i] = STAR
    /\ k + 2 > Len(s) \/ s[k + 2] # STAR
Stars(k) == [i \in 1..k |-> "*"]

\* C11: parseType consumes one type-name token (primitive keyword or identifier)
\* and the maximal run of k >= 0 '*' tokens after it, returns a Type of pointer
\* depth exactly k whose fullName is the type name followed by k '*' characters,
\* and leaves the first token after the run current.
C11_ParseType ==
  (Parsed("parseType") /\ src # <<>> /\ src[1].type \in PureTypes \cup {"TT_IDENT"})
  => /\ res.status = "ok"
     /\ res.v.name = src[1].value
     /\ res.v.pointerDepth = StarRun(src)
     /\ res.v.pointerDepth >= 0
     /\ fullName(res.v) = src[1].value \o Stars(StarRun(src))
     /\ Consumed = 1 + StarRun(src)
     /\ res.cur.position = 2 + StarRun(src)
     /\ res.cur.type # "TT_STAR"

C11_Witness ==
  /\ Parsed("parseType")
  /\ src = <<K_INT, STAR, STAR, IdX>>
  /\ res.v.pointerDepth = 2
  /\ fullName(res.v) = <<"int", "*", "*">>
  /\ res.cur.type = "TT_IDENT"

\* the raw texts of the quoted literals that stand side by side in s from
\* position i on, and the position after the last of them
RECURSIVE LiteralRun(_, _, _)
LiteralRun(s, i, raws) ==
  IF i + 1 <= Len(s) /\ s[i] = DQ /\ s[i + 1] = DQ
    THEN LiteralRun(s, i + 2, Append(raws, <<>>))
  ELSE IF i + 2 <= Len(s) /\ s[i] = DQ /\ s[i + 1].type = "RAW" /\ s[i + 2] = DQ
    THEN LiteralRun(s, i + 3, Append(raws, s[i + 1].value))
  ELSE [raws |-> raws, end |-> i]

\* no literal of the run is left open
RunClosed(s) == LiteralRun(s, 1, <<>>).end > Len(s) \/ s[LiteralRun(s, 1, <<>>).end] # DQ

RECURSIVE EscapedInOrder(_)
EscapedInOrder(raws) ==
  IF raws = <<>> THEN <<>> ELSE replaceEscapes(raws[1]) \o EscapedInOrder(Tail(raws))

\* C12: parseStringLiteral consumes the maximal run of k adjacent quoted literals;
\* for k >= 1 the content is the escape-replaced raw texts concatenated in source
\* order, for k = 0 it is a user-facing error.  A register name in a binding is
\* one literal only: a second literal right after it is a user-facing error.
C12_StringLiteral ==
  /\ (Parsed("parseStringLiteral") /\ RunClosed(src)) =>
       IF LiteralRun(src, 1, <<>>).raws # <<>>
         THEN /\ res.status = "ok"
              /\ res.v = [content |-> EscapedInOrder(LiteralRun(src, 1, <<>>).raws)]
              /\ res.cur.position = LiteralRun(src, 1, <<>>).end
              /\ Consumed = LiteralRun(src, 1, <<>>).end - 1
         ELSE /\ res.status = "user_error"
              /\ res.errpos = 1
              /\ Consumed = 0
  /\ (Parsed("parseBindingRequest") /\ Len(src) >= 4
        /\ src[1] = DQ /\ src[2] = RawEax /\ src[3] = DQ /\ src[4] = DQ) =>
       (res.status = "user_error" /\ res.errpos = 4)

C12_Witness ==
  /\ Parsed("parseStringLiteral")
  /\ src = <<DQ, RawNop, DQ, DQ, RawTab, DQ, RPAR>>
  /\ res.v.content = <<"n", "o", "p", "TAB", "b">>

\* where the c-th `class` keyword of s stands
ClassKeywords(s) == {i \in 1..Len(s) : s[i] = K_CLASS}
NthClassKeyword(s, c) ==
  CHOOSE i \in ClassKeywords(s) : Cardinality({j \in ClassKeywords(s) : j <= i}) = c

AllPublic(members) == \A m \in 1..Len(members) : members[m][2] = [level |-> "Public"]

\* C13: in every Class node the parser returns, every attribute and every method
\* is paired with the access specifier Public, and the node's name is the
\* identifier that follows its `class` keyword, not the name of a member.
C13_ClassMembers ==
  (Parsed("parseTranslationUnit") /\ res.status = "ok") =>
    /\ Len(res.v.classes) = Cardinality(ClassKeywords(src))
    /\ \A c \in 1..Len(res.v.classes) :
         /\ AllPublic(res.v.classes[c].attributes)
         /\ AllPublic(res.v.classes[c].methods)
         /\ res.v.classes[c].name = src[NthClassKeyword(src, c) + 1].value

C13_Witness ==
  /\ Parsed("parseTranslationUnit")
  /\ src = <<K_CLASS, IdX, LCURL, K_INT, STAR, IdF, SEMI, RCURL, SEMI,
             K_CLASS, IdF, LCURL, RCURL, SEMI>>
  /\ res.status = "ok"
  /\ res.v.classes[1].name = <<"x">>
  /\ res.v.classes[1].attributes[1][1].name = <<"f">>
  /\ res.v.classes[2].name = <<"f">>

\* no loop of the parser ran out of iterations, and the lexer was asked for no
\* more than one token after the end-of-input token
LoopsProgress == res.status # "diverged" /\ res.pos <= Len(src) + 2

\* C14: on every finite token stream parseTranslationUnit terminates, either
\* returning a TranslationUnit or raising an error; every iteration of every
\* parser loop consumes a token or raises an error, so no loop spins on
\* end-of-input or on another unconsumed token.
C14_Terminates ==
  Parsed("parseTranslationUnit") =>
    /\ LoopsProgress
    /\ \/ res.status = "ok" /\ DOMAIN res.v = {"functions", "classes"}
       \/ res.status = "user_error" /\ res.v = NoValue

====
